---- MODULE Spec2Model ----
(***************************************************************************)
(* comat: colour names in format strings.  CFStr::parse (src/cfstr.rs)     *)
(* rewrites a template into a string with ANSI escapes; the macros of      *)
(* src/lib.rs parse "[sink,] template [,] args" and hand the rewritten     *)
(* template and the arguments to the std formatting macro.                 *)
(*                                                                         *)
(* A string is a sequence of one-character strings; "ESC" stands for the   *)
(* byte 0x1B.                                                              *)
(***************************************************************************)
EXTENDS Naturals, Sequences, FiniteSets, TLC

\* ------------------------------------------------------------ bounds
\* the templates of the comat! runs: at most MaxFrags fragments of Frags
MaxFrags == 5
\* the templates made of whole tokens: at most MaxPieces pieces of Pieces
MaxPieces == 3
\* the bodies B of the single-token templates {B:S}: at most MaxBody characters
MaxBody == 2
\* the token streams of the facade runs: at most MaxToks tokens
MaxToks == 4

\* ------------------------------------------------------------ name2ansi
\* the match arms of name2ansi, as <<name, escape sequence>>
AnsiTable ==
  {
       <<<<"b","l","a","c","k">>, <<"ESC","[","0",";","3","4",";","3","0","m">>>>
    ,  <<<<"r","e","d">>, <<"ESC","[","0",";","3","4",";","3","1","m">>>>
    ,  <<<<"g","r","e","e","n">>, <<"ESC","[","0",";","3","4",";","3","2","m">>>>
    ,  <<<<"y","e","l","l","o","w">>, <<"ESC","[","0",";","3","4",";","3","3","m">>>>
    ,  <<<<"b","l","u","e">>, <<"ESC","[","0",";","3","4",";","3","4","m">>>>
    ,  <<<<"m","a","g","e","n","t","a">>, <<"ESC","[","0",";","3","4",";","3","5","m">>>>
    ,  <<<<"c","y","a","n">>, <<"ESC","[","0",";","3","4",";","3","6","m">>>>
    ,  <<<<"w","h","i","t","e">>, <<"ESC","[","0",";","3","4",";","3","7","m">>>>
    ,  <<<<"d","e","f","a","u","l","t">>, <<"ESC","[","0",";","3","4",";","3","9","m">>>>
    ,  <<<<"b","o","l","d","_","b","l","a","c","k">>, <<"ESC","[","1",";","3","4",";","3","0","m">>>>
    ,  <<<<"b","o","l","d","_","r","e","d">>, <<"ESC","[","1",";","3","4",";","3","1","m">>>>
    ,  <<<<"b","o","l","d","_","g","r","e","e","n">>, <<"ESC","[","1",";","3","4",";","3","2","m">>>>
    ,  <<<<"b","o","l","d","_","y","e","l","l","o","w">>, <<"ESC","[","1",";","3","4",";","3","3","m">>>>
    ,  <<<<"b","o","l","d","_","b","l","u","e">>, <<"ESC","[","1",";","3","4",";","3","4","m">>>>
    ,  <<<<"b","o","l","d","_","m","a","g","e","n","t","a">>, <<"ESC","[","1",";","3","4",";","3","5","m">>>>
    ,  <<<<"b","o","l","d","_","c","y","a","n">>, <<"ESC","[","1",";","3","4",";","3","6","m">>>>
    ,  <<<<"b","o","l","d","_","w","h","i","t","e">>, <<"ESC","[","1",";","3","4",";","3","7","m">>>>
    ,  <<<<"b","o","l","d","_","d","e","f","a","u","l","t">>, <<"ESC","[","1",";","3","4",";","3","9","m">>>>
    ,  <<<<"o","n","_","b","l","a","c","k","_","b","o","l","d">>, <<"ESC","[","1",";","3","4",";","4","0","m">>>>
    ,  <<<<"o","n","_","r","e","d","_","b","o","l","d">>, <<"ESC","[","1",";","3","4",";","4","1","m">>>>
    ,  <<<<"o","n","_","g","r","e","e","n","_","b","o","l","d">>, <<"ESC","[","1",";","3","4",";","4","2","m">>>>
    ,  <<<<"o","n","_","y","e","l","l","o","w","_","b","o","l","d">>, <<"ESC","[","1",";","3","4",";","4","3","m">>>>
    ,  <<<<"o","n","_","b","l","u","e","_","b","o","l","d">>, <<"ESC","[","1",";","3","4",";","4","4","m">>>>
    ,  <<<<"o","n","_","m","a","g","e","n","t","a","_","b","o","l","d">>, <<"ESC","[","1",";","4","4",";","3","5","m">>>>
    ,  <<<<"o","n","_","c","y","a","n","_","b","o","l","d">>, <<"ESC","[","1",";","3","4",";","4","6","m">>>>
    ,  <<<<"o","n","_","w","h","i","t","e","_","b","o","l","d">>, <<"ESC","[","1",";","3","4",";","4","7","m">>>>
    ,  <<<<"o","n","_","d","e","f","a","u","l","t","_","b","o","l","d">>, <<"ESC","[","1",";","3","4",";","4","9","m">>>>
    ,  <<<<"o","n","_","b","l","a","c","k">>, <<"ESC","[","0",";","3","4",";","4","0","m">>>>
    ,  <<<<"o","n","_","r","e","d">>, <<"ESC","[","0",";","3","4",";","4","1","m">>>>
    ,  <<<<"o","n","_","g","r","e","e","n">>, <<"ESC","[","0",";","3","4",";","4","2","m">>>>
    ,  <<<<"o","n","_","y","e","l","l","o","w">>, <<"ESC","[","0",";","3","4",";","4","3","m">>>>
    ,  <<<<"o","n","_","b","l","u","e">>, <<"ESC","[","0",";","3","4",";","4","4","m">>>>
    ,  <<<<"o","n","_","m","a","g","e","n","t","a">>, <<"ESC","[","0",";","4","4",";","3","5","m">>>>
    ,  <<<<"o","n","_","c","y","a","n">>, <<"ESC","[","0",";","3","4",";","4","6","m">>>>
    ,  <<<<"o","n","_","w","h","i","t","e">>, <<"ESC","[","0",";","3","4",";","4","7","m">>>>
    ,  <<<<"o","n","_","d","e","f","a","u","l","t">>, <<"ESC","[","0",";","3","4",";","4","9","m">>>>
    ,  <<<<"r","e","s","e","t">>, <<"ESC","[","0","m">>>>
    ,  <<<<"d","i","m">>, <<"ESC","[","2","m">>>>
    ,  <<<<"i","t","a","l","i","c">>, <<"ESC","[","3","m">>>>
    ,  <<<<"u","n","d","e","r","l","i","n","e">>, <<"ESC","[","2","4","m">>>>
    ,  <<<<"b","l","i","n","k","i","n","g">>, <<"ESC","[","5","m">>>>
    ,  <<<<"h","i","d","e">>, <<"ESC","[","8","m">>>>
    ,  <<<<"s","t","r","i","k","e">>, <<"ESC","[","9","m">>>>
    ,  <<<<"b","o","l","d">>, <<"ESC","[","1","m">>>>
  }

VocabNames == { e[1] : e \in AnsiTable }

None == [some |-> FALSE, val |-> <<>>]
Some(x) == [some |-> TRUE, val |-> x]

name2ansi(name) ==
  IF name \in VocabNames
  THEN Some((CHOOSE e \in AnsiTable : e[1] = name)[2])
  ELSE None

\* name2ansi("reset").unwrap()
ResetName == <<"r","e","s","e","t">>
ansi_reset == name2ansi(ResetName).val

\* ------------------------------------------------------------ str::split_once
\* the indices of s that hold c
Positions(s, c) == { i \in 1..Len(s) : s[i] = c }

Min(S) == CHOOSE x \in S : \A y \in S : x <= y
Max(S) == CHOOSE x \in S : \A y \in S : y <= x

\* a faulty variant of split_once: the split is made at the last ':' (rsplit_once)
rsplit_once(s) ==
  IF Positions(s, ":") = {} THEN None
  ELSE LET i == Max(Positions(s, ":"))
       IN  Some(<<SubSeq(s, 1, i - 1), SubSeq(s, i + 1, Len(s))>>)

\* temp.split_once(':'): the parts before and after the first ':'
split_once(s) ==
  IF Positions(s, ":") = {} THEN None
  ELSE LET i == Min(Positions(s, ":"))
       IN  Some(<<SubSeq(s, 1, i - 1), SubSeq(s, i + 1, Len(s))>>)

\* ------------------------------------------------------------ what the arms push
\* a faulty variant of Push: the character is not pushed
PushNothing(o, c) == o

\* out.push(c)
Push(o, c) == Append(o, c)

\* a faulty variant of EmitStyle: a reset follows the style
EmitStyleThenReset(o, a) == o \o a \o ansi_reset

\* the arm of a known name: out.push_str(a)
EmitStyle(o, a) == o \o a

\* a faulty variant of EmitValueStyle: no reset before the style
EmitValueStyleNoReset(o, b, a) ==
  o \o a \o <<"{">> \o b \o <<"}">> \o ansi_reset

\* the arm of body:name with a known name: reset, style, {body}, reset
EmitValueStyle(o, b, a) ==
  o \o ansi_reset \o a \o <<"{">> \o b \o <<"}">> \o ansi_reset

\* a faulty variant of EmitPassThrough: the closing brace is not pushed
EmitPassThroughOpen(o, t) == o \o <<"{">> \o t

\* the fall-through arm: the token is pushed back as it was read
EmitPassThrough(o, t) == o \o <<"{">> \o t \o <<"}">>

\* ------------------------------------------------------------ results
Pending == [tag |-> "Pending", val |-> <<>>, msg |-> ""]
Ok(o) == [tag |-> "Ok", val |-> o, msg |-> ""]
Err(m) == [tag |-> "Err", val |-> <<>>, msg |-> m]

\* the token stream a macro expands to: host!([sink,] fmt [, args])
Expansion(h, s, f, as) ==
  [tag |-> "Ok", host |-> h, sink |-> s, fmt |-> f, args |-> as, msg |-> ""]
Failure(m) ==
  [tag |-> "Err", host |-> "", sink |-> "none", fmt |-> <<>>, args |-> <<>>, msg |-> m]
NoResult ==
  [tag |-> "Pending", host |-> "", sink |-> "none", fmt |-> <<>>, args |-> <<>>, msg |-> ""]

\* ------------------------------------------------------------ the macros
Macros ==
  {"comat", "cprintln", "cprint", "cformat", "cformat_args", "cpanic", "cwrite", "cwriteln"}

\* the type each macro parses its input as
Shape(m) ==
  IF m = "comat" THEN "CFStr"
  ELSE IF m \in {"cwrite", "cwriteln"} THEN "Two"
  ELSE "One"

\* the std macro each macro expands to
Host(m) ==
  CASE m = "cprintln" -> "println"
    [] m = "cprint" -> "print"
    [] m = "cformat" -> "format"
    [] m = "cformat_args" -> "format_args"
    [] m = "cpanic" -> "panic"
    [] m = "cwrite" -> "write"
    [] m = "cwriteln" -> "writeln"
    [] OTHER -> "literal"

\* ------------------------------------------------------------ inputs
\* the tokens of a macro's input: a string literal, a comma, another expression
TokKinds == {"lit", "comma", "expr"}
TokStreams == UNION { [1..n -> TokKinds] : n \in 0..MaxToks }

\* syn parses a string literal as an expression too
IsExpr(k) == k \in {"lit", "expr"}

Frags == { <<"{">>, <<"}">>, <<":">>, <<"a">>, <<"r","e","d">>, ResetName }

\* whole tokens and a character of text
Pieces ==
  { <<"{","a","}">>, <<"{","r","e","d","}">>, <<"{","a",":","r","e","d","}">>,
    <<"{","r","e","s","e","t","}">>, <<"a">> }

\* the concatenations of at most n members of F
RECURSIVE Concats(_, _)
Concats(F, n) ==
  IF n = 0 THEN { <<>> }
  ELSE LET P == Concats(F, n - 1) IN P \cup { p \o f : p \in P, f \in F }

BodyChars == {"a", "{"}
Bodies == UNION { [1..n -> BodyChars] : n \in 0..MaxBody }

\* the templates {S} and {B:S} of every name S
TokenTemplates ==
  { <<"{">> \o S \o <<"}">> : S \in VocabNames }
  \cup { <<"{">> \o B \o <<":">> \o S \o <<"}">> : B \in Bodies, S \in VocabNames }

\* the templates of tests/basic.rs and of the crate documentation
Scenarios ==
  {
       <<"{","r","e","d","}","y","e","s","{","r","e","s","e","t","}">>   \* {red}yes{reset}
    ,  <<"{","t","h","i","n","g",":","r","e","d","}">>   \* {thing:red}
    ,  <<"{","n",":",".","0","}">>   \* {n:.0}
    ,  <<"{","}">>   \* {}
    ,  <<"{","{","o","w","}","}"," ","{","{","r","e","d","}","}">>   \* {{ow}} {{red}}
    ,  <<"{","{","{","{">>   \* {{{{
    ,  <<"{",":","r","e","s","e","t","}">>   \* {:reset}
    ,  <<"{","R","E","D","}">>   \* {RED}
    ,  <<"{","x",":","?","}">>   \* {x:?}
    ,  <<"{","a",":","b",":","r","e","d","}">>   \* {a:b:red}
    ,  <<"{","a","{","b","}">>   \* {a{b}
    ,  <<"{","r","e","d","}","{","o","n","_","b","l","u","e","}","{","t","h","i","n","g","1","}"," ","{","t","h","i","n","g","2","}"," ","{","t","h","i","n","g","3",":","i","t","a","l","i","c","}">>   \* {red}{on_blue}{thing1} {thing2} {thing3:italic}
    ,  <<"{","{">>   \* {{
    ,  <<"}","}">>   \* }}
  }

Templates ==
  Concats(Frags, MaxFrags) \cup Concats(Pieces, MaxPieces) \cup TokenTemplates \cup Scenarios

\* the templates of the runs of the other macros
FacadeTemplates == { <<"a">>, <<"{">>, <<"{","r","e","d","}">> }

\* ------------------------------------------------------------ state
VARIABLES
  macro,     \* the macro invoked
  toks,      \* its input: the kinds of its tokens
  tp,        \* the parse stream's cursor into toks
  pc,        \* where the parse stands
  sink,      \* Two.a: the kind of the sink expression, "none" before it is parsed
  args,      \* the Punctuated arguments parsed so far
  input,     \* the value of the template's string literal
  pos,       \* chars: the index of the next character of input
  mode,      \* "outer": the while loop; "inner": the for loop of an open token
  temp,      \* temp
  out,       \* out
  tokStart,  \* history: the index of the '{' of the token that is open
  cf,        \* what CFStr::parse returned
  ret        \* what the macro produced

vars ==
  <<macro, toks, tp, pc, sink, args, input, pos, mode, temp, out, tokStart, cf, ret>>

stream == <<macro, toks, tp, sink, args>>
scan == <<input, pos, mode, temp, out, tokStart, cf>>

Init ==
  /\ \/ macro = "comat" /\ toks = <<"lit">> /\ input \in Templates
     \/ macro \in Macros /\ toks \in TokStreams /\ input \in FacadeTemplates
  /\ tp = 1
  /\ pc = IF Shape(macro) = "Two" THEN "sink" ELSE "lit"
  /\ sink = "none"
  /\ args = <<>>
  /\ pos = 1
  /\ mode = "outer"
  /\ temp = <<>>
  /\ out = <<>>
  /\ tokStart = 0
  /\ cf = Pending
  /\ ret = NoResult

HasTok == tp <= Len(toks)
HasCh(i) == i <= Len(input)

\* ------------------------------------------------------------ Two::parse, head
\* let a = input.parse::<Expr>()?
TwoSink ==
  /\ pc = "sink"
  /\ HasTok /\ IsExpr(toks[tp])
  /\ sink' = toks[tp]
  /\ tp' = tp + 1
  /\ pc' = "sinkcomma"
  /\ UNCHANGED <<macro, toks, args, ret>>
  /\ UNCHANGED scan

TwoSinkErr ==
  /\ pc = "sink"
  /\ ~(HasTok /\ IsExpr(toks[tp]))
  /\ ret' = Failure("expected expression")
  /\ pc' = "done"
  /\ UNCHANGED stream
  /\ UNCHANGED scan

\* input.parse::<Token![,]>()?
TwoComma ==
  /\ pc = "sinkcomma"
  /\ HasTok /\ toks[tp] = "comma"
  /\ tp' = tp + 1
  /\ pc' = "lit"
  /\ UNCHANGED <<macro, toks, sink, args, ret>>
  /\ UNCHANGED scan

TwoCommaErr ==
  /\ pc = "sinkcomma"
  /\ ~(HasTok /\ toks[tp] = "comma")
  /\ ret' = Failure("expected comma")
  /\ pc' = "done"
  /\ UNCHANGED stream
  /\ UNCHANGED scan

\* ------------------------------------------------------------ CFStr::parse
\* stream.parse::<LitStr>()?.value()
LitStr ==
  /\ pc = "lit"
  /\ HasTok /\ toks[tp] = "lit"
  /\ tp' = tp + 1
  /\ pc' = "scan"
  /\ UNCHANGED <<macro, toks, sink, args, ret>>
  /\ UNCHANGED scan

LitStrErr ==
  /\ pc = "lit"
  /\ ~(HasTok /\ toks[tp] = "lit")
  /\ cf' = Err("expected string literal")
  /\ pc' = "cfdone"
  /\ UNCHANGED <<input, pos, mode, temp, out, tokStart>>
  /\ UNCHANGED <<stream, ret>>

Outer == pc = "scan" /\ mode = "outer"
Inner == pc = "scan" /\ mode = "inner"

\* while let Some(ch) = chars.next() ends: Ok(Self(out))
OuterEnd ==
  /\ Outer
  /\ ~HasCh(pos)
  /\ cf' = Ok(out)
  /\ pc' = "cfdone"
  /\ UNCHANGED <<input, pos, mode, temp, out, tokStart>>
  /\ UNCHANGED <<stream, ret>>

\* a faulty variant of OpenEscape: both braces are pushed
OpenEscapeBoth ==
  /\ Outer
  /\ HasCh(pos) /\ input[pos] = "{"
  /\ HasCh(pos + 1) /\ input[pos + 1] = "{"
  /\ out' = Push(Push(out, "{"), "{")
  /\ pos' = pos + 2
  /\ UNCHANGED <<input, mode, temp, tokStart, cf>>
  /\ UNCHANGED <<stream, pc, ret>>

\* '{' then Some('{')
OpenEscape ==
  /\ Outer
  /\ HasCh(pos) /\ input[pos] = "{"
  /\ HasCh(pos + 1) /\ input[pos + 1] = "{"
  /\ out' = Push(out, "{")
  /\ pos' = pos + 2
  /\ UNCHANGED <<input, mode, temp, tokStart, cf>>
  /\ UNCHANGED <<stream, pc, ret>>

\* '{' then Some('}')
OpenEmpty ==
  /\ Outer
  /\ HasCh(pos) /\ input[pos] = "{"
  /\ HasCh(pos + 1) /\ input[pos + 1] = "}"
  /\ out' = Push(Push(out, "{"), "}")
  /\ pos' = pos + 2
  /\ UNCHANGED <<input, mode, temp, tokStart, cf>>
  /\ UNCHANGED <<stream, pc, ret>>

\* '{' then Some(ch): temp.push(ch), and the for loop starts
OpenToken ==
  /\ Outer
  /\ HasCh(pos) /\ input[pos] = "{"
  /\ HasCh(pos + 1) /\ input[pos + 1] \notin {"{", "}"}
  /\ temp' = Append(temp, input[pos + 1])
  /\ pos' = pos + 2
  /\ mode' = "inner"
  /\ tokStart' = pos
  /\ UNCHANGED <<input, out, cf>>
  /\ UNCHANGED <<stream, pc, ret>>

\* '{' then None
OpenEof ==
  /\ Outer
  /\ HasCh(pos) /\ input[pos] = "{"
  /\ ~HasCh(pos + 1)
  /\ cf' = Err("unexpected eof")
  /\ pc' = "cfdone"
  /\ pos' = pos + 1
  /\ UNCHANGED <<input, mode, temp, out, tokStart>>
  /\ UNCHANGED <<stream, ret>>

\* in the for loop, t => temp.push(t)
InnerChar ==
  /\ Inner
  /\ HasCh(pos) /\ input[pos] # "}"
  /\ temp' = Append(temp, input[pos])
  /\ pos' = pos + 1
  /\ UNCHANGED <<input, mode, out, tokStart, cf>>
  /\ UNCHANGED <<stream, pc, ret>>

\* the for loop runs out of characters: control returns to the while loop
InnerEnd ==
  /\ Inner
  /\ ~HasCh(pos)
  /\ mode' = "outer"
  /\ UNCHANGED <<input, pos, temp, out, tokStart, cf>>
  /\ UNCHANGED <<stream, pc, ret>>

IsStyle(t) == name2ansi(t).some
IsValueStyle(t) ==
  /\ ~IsStyle(t)
  /\ split_once(t).some
  /\ name2ansi(split_once(t).val[2]).some

\* '}' and name2ansi(&temp) is Some(a)
CloseStyle ==
  /\ Inner
  /\ HasCh(pos) /\ input[pos] = "}"
  /\ IsStyle(temp)
  /\ out' = EmitStyle(out, name2ansi(temp).val)
  /\ temp' = <<>>
  /\ mode' = "outer"
  /\ pos' = pos + 1
  /\ UNCHANGED <<input, tokStart, cf>>
  /\ UNCHANGED <<stream, pc, ret>>

\* '}' and temp splits at ':' into (b, a) with name2ansi(a) Some
CloseValueStyle ==
  /\ Inner
  /\ HasCh(pos) /\ input[pos] = "}"
  /\ IsValueStyle(temp)
  /\ LET ba == split_once(temp).val
     IN  out' = EmitValueStyle(out, ba[1], name2ansi(ba[2]).val)
  /\ temp' = <<>>
  /\ mode' = "outer"
  /\ pos' = pos + 1
  /\ UNCHANGED <<input, tokStart, cf>>
  /\ UNCHANGED <<stream, pc, ret>>

\* '}' otherwise
ClosePassThrough ==
  /\ Inner
  /\ HasCh(pos) /\ input[pos] = "}"
  /\ ~IsStyle(temp) /\ ~IsValueStyle(temp)
  /\ out' = EmitPassThrough(out, temp)
  /\ temp' = <<>>
  /\ mode' = "outer"
  /\ pos' = pos + 1
  /\ UNCHANGED <<input, tokStart, cf>>
  /\ UNCHANGED <<stream, pc, ret>>

\* '}' then Some('}')
CloseEscape ==
  /\ Outer
  /\ HasCh(pos) /\ input[pos] = "}"
  /\ HasCh(pos + 1) /\ input[pos + 1] = "}"
  /\ out' = Push(out, "}")
  /\ pos' = pos + 2
  /\ UNCHANGED <<input, mode, temp, tokStart, cf>>
  /\ UNCHANGED <<stream, pc, ret>>

\* a faulty variant of CloseErr: a lone '}' is pushed as it is
CloseLenient ==
  /\ Outer
  /\ HasCh(pos) /\ input[pos] = "}"
  /\ ~(HasCh(pos + 1) /\ input[pos + 1] = "}")
  /\ out' = Push(out, "}")
  /\ pos' = pos + 1
  /\ UNCHANGED <<input, mode, temp, tokStart, cf>>
  /\ UNCHANGED <<stream, pc, ret>>

\* '}' then anything else, or nothing
CloseErr ==
  /\ Outer
  /\ HasCh(pos) /\ input[pos] = "}"
  /\ ~(HasCh(pos + 1) /\ input[pos + 1] = "}")
  /\ cf' = Err("unexpected text")
  /\ pc' = "cfdone"
  /\ pos' = IF HasCh(pos + 1) THEN pos + 2 ELSE pos + 1
  /\ UNCHANGED <<input, mode, temp, out, tokStart>>
  /\ UNCHANGED <<stream, ret>>

\* c => out.push(c)
Literal ==
  /\ Outer
  /\ HasCh(pos) /\ input[pos] \notin {"{", "}"}
  /\ out' = Push(out, input[pos])
  /\ pos' = pos + 1
  /\ UNCHANGED <<input, mode, temp, tokStart, cf>>
  /\ UNCHANGED <<stream, pc, ret>>

\* ------------------------------------------------------------ after CFStr::parse
\* CFStr::parse returned Err: `?` and parse_macro_input! hand the error on
CFStrFail ==
  /\ pc = "cfdone"
  /\ cf.tag = "Err"
  /\ ret' = Failure(cf.msg)
  /\ pc' = "done"
  /\ UNCHANGED stream
  /\ UNCHANGED scan

\* comat!: the literal is the whole expansion
ComatExpand ==
  /\ pc = "cfdone"
  /\ cf.tag = "Ok"
  /\ Shape(macro) = "CFStr"
  /\ ~HasTok
  /\ ret' = Expansion(Host(macro), "none", cf.val, <<>>)
  /\ pc' = "done"
  /\ UNCHANGED stream
  /\ UNCHANGED scan

\* comat!: parse_macro_input! rejects tokens left after the CFStr
ComatTrailing ==
  /\ pc = "cfdone"
  /\ cf.tag = "Ok"
  /\ Shape(macro) = "CFStr"
  /\ HasTok
  /\ ret' = Failure("unexpected token")
  /\ pc' = "done"
  /\ UNCHANGED stream
  /\ UNCHANGED scan

\* let _ = input.parse::<Token![,]>(): the cursor after it, the result dropped
CommaTaken(ts, i) ==
  IF i <= Len(ts) /\ ts[i] = "comma" THEN i + 1 ELSE i

OptComma ==
  /\ pc = "cfdone"
  /\ cf.tag = "Ok"
  /\ Shape(macro) \in {"One", "Two"}
  /\ tp' = CommaTaken(toks, tp)
  /\ pc' = "value"
  /\ UNCHANGED <<macro, toks, sink, args, ret>>
  /\ UNCHANGED scan

\* Punctuated::parse_terminated: the stream is empty, before a value or a comma
ArgsEnd ==
  /\ pc \in {"value", "punct"}
  /\ ~HasTok
  /\ pc' = "expand"
  /\ UNCHANGED <<macro, toks, tp, sink, args, ret>>
  /\ UNCHANGED scan

\* parse_terminated: a value
ArgValue ==
  /\ pc = "value"
  /\ HasTok /\ IsExpr(toks[tp])
  /\ args' = Append(args, toks[tp])
  /\ tp' = tp + 1
  /\ pc' = "punct"
  /\ UNCHANGED <<macro, toks, sink, ret>>
  /\ UNCHANGED scan

ArgValueErr ==
  /\ pc = "value"
  /\ HasTok /\ ~IsExpr(toks[tp])
  /\ ret' = Failure("expected expression")
  /\ pc' = "done"
  /\ UNCHANGED stream
  /\ UNCHANGED scan

\* parse_terminated: a comma
ArgPunct ==
  /\ pc = "punct"
  /\ HasTok /\ toks[tp] = "comma"
  /\ tp' = tp + 1
  /\ pc' = "value"
  /\ UNCHANGED <<macro, toks, sink, args, ret>>
  /\ UNCHANGED scan

ArgPunctErr ==
  /\ pc = "punct"
  /\ HasTok /\ toks[tp] # "comma"
  /\ ret' = Failure("expected comma")
  /\ pc' = "done"
  /\ UNCHANGED stream
  /\ UNCHANGED scan

\* quote! { host!(#f) }: One and Two to_tokens
Expand ==
  /\ pc = "expand"
  /\ ret' = Expansion(Host(macro), sink, cf.val, args)
  /\ pc' = "done"
  /\ UNCHANGED stream
  /\ UNCHANGED scan

Next ==
  \/ TwoSink \/ TwoSinkErr \/ TwoComma \/ TwoCommaErr
  \/ LitStr \/ LitStrErr
  \/ OuterEnd \/ OpenEscape \/ OpenEmpty \/ OpenToken \/ OpenEof
  \/ InnerChar \/ InnerEnd
  \/ CloseStyle \/ CloseValueStyle \/ ClosePassThrough
  \/ CloseEscape \/ CloseErr \/ Literal
  \/ CFStrFail \/ ComatExpand \/ ComatTrailing
  \/ OptComma \/ ArgsEnd \/ ArgValue \/ ArgValueErr \/ ArgPunct \/ ArgPunctErr
  \/ Expand

Spec == Init /\ [][Next]_vars

\* ============================================================ properties
\* The vocabulary of the properties: ansi(S) is the table's entry of S, a
\* token's content is read off the template.

AnsiOf(S) == (CHOOSE e \in AnsiTable : e[1] = S)[2]
Reset == <<"ESC", "[", "0", "m">>
Braces == {"{", "}"}

\* CFStr::parse has scanned the template and returned
Scanned == cf.tag # "Pending" /\ cf # Err("expected string literal")

\* T is one brace pair around X, and X holds no '}'
Interior(T) == SubSeq(T, 2, Len(T) - 1)
OnePair(T) ==
  /\ Len(T) >= 2
  /\ T[1] = "{" /\ T[Len(T)] = "}"
  /\ \A i \in 2..(Len(T) - 1) : T[i] # "}"

FirstColon(X) == CHOOSE i \in 1..Len(X) : X[i] = ":" /\ \A j \in 1..(i - 1) : X[j] # ":"
BodyOf(X) == SubSeq(X, 1, FirstColon(X) - 1)
TailOf(X) == SubSeq(X, FirstColon(X) + 1, Len(X))

\* T is "{B:S}": B holds neither '}' nor ':', S is a name of the vocabulary
IsBodyStyle(T) ==
  /\ OnePair(T)
  /\ \E i \in 1..Len(Interior(T)) : Interior(T)[i] = ":"
  /\ TailOf(Interior(T)) \in VocabNames

BodyStyleImage(B, S) == Reset \o AnsiOf(S) \o <<"{">> \o B \o <<"}">> \o Reset

\* the number of places of s where r occurs
Occurrences(s, r) ==
  Cardinality({ i \in 1..Len(s) : i + Len(r) - 1 <= Len(s) /\ SubSeq(s, i, i + Len(r) - 1) = r })

IsPrefix(s, t) == Len(s) <= Len(t) /\ SubSeq(t, 1, Len(s)) = s
IsSuffix(s, t) == Len(s) <= Len(t) /\ SubSeq(t, Len(t) - Len(s) + 1, Len(t)) = s

\* the content of the token that the for loop has read up to pos
Content == SubSeq(input, tokStart + 1, pos - 1)
AtClose == Inner /\ HasCh(pos) /\ input[pos] = "}"

C2_ResetBracketing ==
  (Scanned /\ IsBodyStyle(input) /\ input[2] # "{") =>
    /\ cf.tag = "Ok"
    /\ LET B == BodyOf(Interior(input))
           k == CHOOSE i \in 1..Len(cf.val) : cf.val[i] = "{" /\ \A j \in 1..(i - 1) : cf.val[j] # "{"
           before == SubSeq(cf.val, 1, k - 1)
           after == SubSeq(cf.val, k + Len(B) + 2, Len(cf.val))
       IN  /\ SubSeq(cf.val, k, k + Len(B) + 1) = <<"{">> \o B \o <<"}">>
           /\ Occurrences(before, Reset) = 1
           /\ Occurrences(after, Reset) = 1

\* ------------------------------------------------------------ C3
\* a token was opened at tokStart and the template holds no '}' from there on
Unclosed == tokStart > 0 /\ \A i \in tokStart..Len(input) : input[i] # "}"

\* C3: when the template ends inside an open token, the transform fails with
\* the unexpected-end-of-input error or emits '{' and what the token had read.
C3_UnclosedToken ==
  (Scanned /\ Unclosed) =>
    \/ cf = Err("unexpected eof")
    \/ cf.tag = "Ok" /\ IsSuffix(SubSeq(input, tokStart, Len(input)), cf.val)

\* ------------------------------------------------------------ C4
\* the index in toks of the template of a One or a Two
TemplateAt == IF Shape(macro) = "Two" THEN 3 ELSE 1

\* the tokens up to the template are well formed and a value follows it directly
ValueWithoutComma ==
  /\ Shape(macro) \in {"One", "Two"}
  /\ Len(toks) > TemplateAt
  /\ toks[TemplateAt] = "lit"
  /\ Shape(macro) = "Two" => IsExpr(toks[1]) /\ toks[2] = "comma"
  /\ IsExpr(toks[TemplateAt + 1])

\* C4: a macro whose template is followed directly by a value argument, with
\* no comma between them, is rejected.
C4_CommaRequired ==
  (pc = "done" /\ ValueWithoutComma) => ret.tag = "Err"

\* ------------------------------------------------------------ C5
\* the content X of a closed token is no name, and its part after the first
\* ':', if it has a ':', is no name either
NotAStyle(X) ==
  /\ X \notin VocabNames
  /\ (\E i \in 1..Len(X) : X[i] = ":") => TailOf(X) \notin VocabNames

\* C5: a closed token whose content is not a name, and whose part after the
\* first ':' is not a name, is pushed to the output as it was read, braces
\* included, and nothing else is pushed for it; "{}" likewise.
C5_PassThrough ==
  /\ [][(AtClose /\ NotAStyle(Content)) =>
          out' = out \o <<"{">> \o Content \o <<"}">>]_vars
  /\ [][(Outer /\ HasCh(pos + 1) /\ input[pos] = "{" /\ input[pos + 1] = "}") =>
          out' = out \o <<"{", "}">>]_vars
  /\ [](Scanned /\ OnePair(input) /\ (Len(input) > 2 => input[2] # "{")
          /\ NotAStyle(Interior(input)) => cf = Ok(input))

C5_Witness ==
  /\ input = <<"{", "a", ":", "b", ":", "r", "e", "d", "}">>
  /\ cf = Ok(input)

\* ------------------------------------------------------------ braces
Count(s, c) == Cardinality({ i \in 1..Len(s) : s[i] = c })

\* every '}' of s closes a '{' before it, and every '{' is closed
Balanced(s) ==
  /\ Count(s, "{") = Count(s, "}")
  /\ \A n \in 1..Len(s) : Count(SubSeq(s, 1, n), "}") <= Count(SubSeq(s, 1, n), "{")

\* the braces of T are, in order, '{', '}', '{', '}', ...
Alternating(T) ==
  LET b == SelectSeq(T, LAMBDA c : c \in Braces)
  IN  \A i \in 1..Len(b) : b[i] = IF i % 2 = 1 THEN "{" ELSE "}"

\* ------------------------------------------------------------ C6
\* what follows the first b of s
AfterFirst(s, b) ==
  IF \E i \in 1..Len(s) : s[i] = b
  THEN SubSeq(s, 1 + (CHOOSE i \in 1..Len(s) : s[i] = b /\ \A j \in 1..(i - 1) : s[j] # b), Len(s))
  ELSE <<>>

\* s without its stretches from an a to the next b (to the end, without a b)
RECURSIVE Without(_, _, _)
Without(s, a, b) ==
  IF s = <<>> THEN <<>>
  ELSE IF s[1] = a THEN Without(AfterFirst(Tail(s), b), a, b)
       ELSE <<s[1]>> \o Without(Tail(s), a, b)

\* the characters of s outside its escape sequences and its brace tokens
TextOutside(s) == Without(Without(s, "ESC", "m"), "{", "}")

\* C6: a character outside the brace tokens is pushed to the end of the output
\* as it is, what was pushed before it is never changed, so that the text
\* outside the tokens is the same, in the same order, in the template and in
\* its transform; and a template without braces is its own transform.
C6_LiteralsKept ==
  /\ [][(Outer /\ HasCh(pos) /\ input[pos] \notin Braces) =>
          out' = Append(out, input[pos])]_vars
  /\ [][IsPrefix(out, out')]_vars
  /\ [](cf.tag = "Ok" => cf.val = out)
  /\ [](cf.tag = "Ok" /\ Alternating(input) => TextOutside(cf.val) = TextOutside(input))
  /\ [](Scanned /\ (\A i \in 1..Len(input) : input[i] \notin Braces) => cf = Ok(input))

C6_Witness ==
  /\ input = <<"{","r","e","d","}","y","e","s","{","r","e","s","e","t","}">>
  /\ cf = Ok(AnsiOf(<<"r","e","d">>) \o <<"y","e","s">> \o Reset)

\* ------------------------------------------------------------ C7
\* C7, as stated: the braces of the output of a transform that succeeds are
\* balanced.
C7_AsStated == cf.tag = "Ok" => Balanced(cf.val)

\* C7, amended: they are balanced when the braces of the template alternate,
\* '{' first: the template then holds no escape and no token with a '{' in it.
C7_Balanced == (cf.tag = "Ok" /\ Alternating(input)) => Balanced(cf.val)

C7_Witness ==
  /\ input = <<"{","a","}","{","a",":","r","e","d","}">>
  /\ cf.tag = "Ok"
  /\ Count(cf.val, "{") = 2
  /\ Balanced(cf.val)

\* ------------------------------------------------------------ C8
\* the braces of T come in pairs "{{" and "}}"
RECURSIVE EscapesOnly(_)
EscapesOnly(T) ==
  IF T = <<>> THEN TRUE
  ELSE IF T[1] \in Braces
       THEN Len(T) >= 2 /\ T[2] = T[1] /\ EscapesOnly(SubSeq(T, 3, Len(T)))
       ELSE EscapesOnly(Tail(T))

\* T with each pair replaced by one brace
RECURSIVE Unescaped(_)
Unescaped(T) ==
  IF T = <<>> THEN <<>>
  ELSE IF T[1] \in Braces
       THEN <<T[1]>> \o Unescaped(SubSeq(T, 3, Len(T)))
       ELSE <<T[1]>> \o Unescaped(Tail(T))

\* C8: each "{{" gives one '{', each "}}" one '}', and the text between them
\* is not resolved as a style: a template whose braces are all escapes
\* transforms to itself with each pair halved.
C8_Escapes ==
  /\ [](Scanned /\ EscapesOnly(input) => cf = Ok(Unescaped(input)))
  /\ [][(Outer /\ HasCh(pos + 1) /\ input[pos] \in Braces /\ input[pos + 1] = input[pos]) =>
          out' = Append(out, input[pos]) /\ pos' = pos + 2 /\ mode' = "outer"]_vars

C8_Witness ==
  /\ input = <<"{","{","o","w","}","}"," ","{","{","r","e","d","}","}">>
  /\ cf = Ok(<<"{","o","w","}"," ","{","r","e","d","}">>)

\* ------------------------------------------------------------ C9
\* C9: a '}' met by the while loop and not followed by '}', and a '{' met by
\* it as the last character, make the transform return an error, whatever was
\* pushed before; the macro then produces the error and no string.
C9_Errors ==
  /\ [][(Outer /\ HasCh(pos) /\ input[pos] = "}"
           /\ ~(HasCh(pos + 1) /\ input[pos + 1] = "}")) =>
          cf' = Err("unexpected text")]_vars
  /\ [][(Outer /\ HasCh(pos) /\ input[pos] = "{" /\ pos = Len(input)) =>
          cf' = Err("unexpected eof")]_vars
  /\ [](pc = "done" /\ cf.tag = "Err" => ret = Failure(cf.msg))

C9_Witness ==
  /\ pc = "done"
  /\ cf = Err("unexpected text")
  /\ Len(out) > 0
  /\ \E i \in 1..Len(out) : out[i] = "ESC"
  /\ ret.tag = "Err" /\ ret.fmt = <<>>

\* ------------------------------------------------------------ C10
\* C10: "{S}" transforms to ansi(S), and a closed token whose content is a
\* name S pushes ansi(S) and nothing else, whatever was read before it.
C10_Style ==
  /\ [](Scanned /\ OnePair(input) /\ Interior(input) \in VocabNames =>
          cf = Ok(AnsiOf(Interior(input))))
  /\ [][(AtClose /\ Content \in VocabNames) => out' = out \o AnsiOf(Content)]_vars

C10_Witness ==
  /\ input = <<"{","a",":","r","e","d","}","{","r","e","d","}">>
  /\ cf = Ok(Reset \o AnsiOf(<<"r","e","d">>) \o <<"{","a","}">> \o Reset
                   \o AnsiOf(<<"r","e","d">>))
====
